---- MODULE Spec2Model ----
(***************************************************************************)
(* alpmver: ALPM/RPM version comparison (src/src/version.rs).              *)
(*                                                                         *)
(* Text is a sequence of Unicode scalar values (a Rust &str seen through   *)
(* chars()): "1.0a" is <<49, 46, 48, 97>>.  An Ordering is one of the      *)
(* strings "Less", "Equal", "Greater"; a call that unwinds instead of      *)
(* returning has the outcome "Panic".                                      *)
(***************************************************************************)
EXTENDS Integers, Sequences, FiniteSets, TLC

\* a, b, c:     the texts handed to the operation under way
\* pc:          where that operation stands
\* beg1, beg2:  vercomp's cursors, the remainders after its loop
\* iters:       the passes of vercomp's loop that went round again
\* out:         what the operation has produced
VARIABLES a, b, c, pc, beg1, beg2, iters, out

vars == <<a, b, c, pc, beg1, beg2, iters, out>>

Less == "Less"
Equal == "Equal"
Greater == "Greater"
Panic == "Panic"

Ordering == {Less, Equal, Greater}

\* Ordering::then_with (a panic of the first call never reaches it)
then_with(o, p) == IF o = Equal THEN p ELSE o

\* usize::cmp / Ord::cmp on integers
IntCmp(x, y) == IF x < y THEN Less ELSE IF x > y THEN Greater ELSE Equal

(***************************************************************************)
(* Character classes                                                       *)
(***************************************************************************)
Colon == 58
Dash == 45

is_ascii_digit(ch) == ch \in 48..57
is_ascii_alphabetic(ch) == ch \in (65..90) \cup (97..122)
is_ascii_alphanumeric(ch) == is_ascii_digit(ch) \/ is_ascii_alphabetic(ch)

\* char::len_utf8: str::len counts bytes, not chars
len_utf8(ch) == IF ch < 128 THEN 1 ELSE IF ch < 2048 THEN 2 ELSE IF ch < 65536 THEN 3 ELSE 4

RECURSIVE str_len(_)
str_len(s) == IF s = <<>> THEN 0 ELSE len_utf8(Head(s)) + str_len(Tail(s))

\* the character predicates the code passes around, by name
InClass(class, ch) ==
    CASE class = "digit" -> is_ascii_digit(ch)
      [] class = "alpha" -> is_ascii_alphabetic(ch)
      [] class = "noalnum" -> ~is_ascii_alphanumeric(ch)
      [] class = "zero" -> ch = 48
      [] class = "colon" -> ch = Colon

\* length of the maximal prefix of s whose characters are of the class
SpanLen(class, s) ==
    CHOOSE n \in 0..Len(s) :
        /\ \A i \in 1..n : InClass(class, s[i])
        /\ n = Len(s) \/ ~InClass(class, s[n + 1])

Drop(s, n) == SubSeq(s, n + 1, Len(s))
Take(s, n) == SubSeq(s, 1, n)

starts_with(class, s) == s # <<>> /\ InClass(class, Head(s))

\* nom alpha1, with unwrap_or((i, "")) on the error of an empty match;
\* the result is <<remainder, taken>>
take_alpha(i) ==
    LET n == SpanLen("alpha", i)
    IN  IF n = 0 THEN <<i, <<>>>> ELSE <<Drop(i, n), Take(i, n)>>

\* digit1 handing back its input as the remainder
take_digits_no_advance(i) ==
    LET n == SpanLen("digit", i)
    IN  <<i, Take(i, n)>>

\* nom digit1, likewise
take_digits(i) ==
    LET n == SpanLen("digit", i)
    IN  IF n = 0 THEN <<i, <<>>>> ELSE <<Drop(i, n), Take(i, n)>>

\* nom take_while(!is_ascii_alphanumeric): never fails, may take nothing
take_noalnum(i) ==
    LET n == SpanLen("noalnum", i)
    IN  <<Drop(i, n), Take(i, n)>>

atend(x, y) == x = <<>> \/ y = <<>>

(***************************************************************************)
(* str::cmp: lexicographic by bytes, which for the ASCII letters compared  *)
(* here is lexicographic by character code.                                *)
(***************************************************************************)
RECURSIVE str_cmp(_, _)
str_cmp(x, y) ==
    IF x = <<>> /\ y = <<>> THEN Equal
    ELSE IF x = <<>> THEN Less
    ELSE IF y = <<>> THEN Greater
    ELSE IF Head(x) # Head(y) THEN IntCmp(Head(x), Head(y))
    ELSE str_cmp(Tail(x), Tail(y))

(***************************************************************************)
(* u128::from_str on a run of ASCII digits.  A value is kept as its        *)
(* decimal digits without leading zeros (zero is the empty sequence), so   *)
(* that 128-bit values need no 128-bit arithmetic; the conversion fails    *)
(* exactly when the value exceeds u128::MAX = 2^128 - 1.                   *)
(***************************************************************************)
U128MaxDigits ==
    <<51, 52, 48, 50, 56, 50, 51, 54, 54, 57, 50, 48, 57, 51, 56, 52, 54, 51, 52, 54,
      51, 51, 55, 52, 54, 48, 55, 52, 51, 49, 55, 54, 56, 50, 49, 49, 52, 53, 53>>

u128_from_str(ds) ==
    LET v == Drop(ds, SpanLen("zero", ds))
    IN  IF ds = <<>> THEN [ok |-> FALSE, val |-> <<>>]
        ELSE IF Len(v) > Len(U128MaxDigits)
                 \/ (Len(v) = Len(U128MaxDigits) /\ str_cmp(v, U128MaxDigits) = Greater)
             THEN [ok |-> FALSE, val |-> <<>>]
        ELSE [ok |-> TRUE, val |-> v]

\* u128::cmp on two converted values
u128_cmp(n1, n2) ==
    IF Len(n1) # Len(n2) THEN IntCmp(Len(n1), Len(n2)) ELSE str_cmp(n1, n2)

(***************************************************************************)
(* vercomp                                                                 *)
(***************************************************************************)
\* the rule without its second clause, `|| rem1.starts_with(alpha)`
RemainderFirstClauseOnly(rem1, rem2) ==
    IF rem1 = <<>> /\ rem2 = <<>> THEN Equal
    ELSE IF rem1 = <<>> /\ ~starts_with("alpha", rem2) THEN Less
    ELSE Greater

\* the rule "simplified": whichever side ran out is the older one
RemainderShorterIsLess(rem1, rem2) ==
    IF rem1 = <<>> /\ rem2 = <<>> THEN Equal
    ELSE IF rem1 = <<>> THEN Less
    ELSE Greater

\* The trailing-remainder rule after the loop (lines 102-116)
Remainder(rem1, rem2) ==
    IF rem1 = <<>> /\ rem2 = <<>> THEN Equal
    ELSE IF (rem1 = <<>> /\ ~starts_with("alpha", rem2))
             \/ starts_with("alpha", rem1)
         THEN Less
    ELSE Greater

\* The comparison of two runs of the governing kind (lines 78-96):
\* an Ordering, or Panic when a conversion's unwrap fails
SegmentCmp(is_num, chk1, chk2) ==
    IF is_num
    THEN LET n1 == u128_from_str(chk1)
             n2 == u128_from_str(chk2)
         IN  IF ~n1.ok \/ ~n2.ok THEN Panic ELSE u128_cmp(n1.val, n2.val)
    ELSE str_cmp(chk1, chk2)

\* the mismatch answered without looking at the kind
KindMismatchAlwaysGreater(is_num) == Greater

\* What the run taken from b being empty means (lines 67-76)
KindMismatch(is_num) == IF is_num THEN Greater ELSE Less

\* One pass through the loop body (lines 39-99) from cursors beg1, beg2, as
\* a record.  at: the place the pass ends; res: the value returned there;
\* r1, r2: the remainders of a break, or the cursors of the next pass.
\* The pass is written as a chain, each link taking what the code has bound
\* with `let` so far.
Pass(at, res, r1, r2) == [at |-> at, res |-> res, r1 |-> r1, r2 |-> r2]

\* lines 78-99, with cmp the comparison of the two runs
Compared(cmp, rem1, rem2) ==
    IF cmp = Panic THEN Pass("panic", Panic, rem1, rem2)
    ELSE IF cmp # Equal THEN Pass("return_cmp", cmp, rem1, rem2)
    ELSE Pass("continue", Equal, rem1, rem2)

\* lines 67-99, with t1 = (rem1, chk1) and t2 = (rem2, chk2) of take_fn
Taken(is_num, t1, t2) ==
    IF t2[2] = <<>>
    THEN Pass("return_kind", KindMismatch(is_num), t1[1], t2[1])
    ELSE Compared(SegmentCmp(is_num, t1[2], t2[2]), t1[1], t2[1])

\* lines 58-62
take_fn(is_num, i) == IF is_num THEN take_digits(i) ELSE take_alpha(i)

\* lines 57-99
Segment(is_num, rem1, rem2) == Taken(is_num, take_fn(is_num, rem1), take_fn(is_num, rem2))

\* lines 46-99, with t1 = (rem1, sym1) and t2 = (rem2, sym2) of take_noalnum
Separated(t1, t2) ==
    IF atend(t1[1], t2[1]) THEN Pass("break_sep", Equal, t1[1], t2[1])
    ELSE IF str_len(t1[2]) # str_len(t2[2])
    THEN Pass("return_sep", IntCmp(str_len(t1[2]), str_len(t2[2])), t1[1], t2[1])
    ELSE Segment(starts_with("digit", t1[1]), t1[1], t2[1])

LoopBody(s1, s2) ==
    IF atend(s1, s2) THEN Pass("break_begin", Equal, s1, s2)
    ELSE Separated(take_noalnum(s1), take_noalnum(s2))

\* What a pass p leads to: the next pass, the remainder rule or a return
RECURSIVE Loop(_, _)
Outcome(p) ==
    CASE p.at = "continue" -> Loop(p.r1, p.r2)
      [] p.at \in {"break_begin", "break_sep"} -> Remainder(p.r1, p.r2)
      [] OTHER -> p.res

\* The loop and what follows it, from cursors s1, s2
Loop(s1, s2) == Outcome(LoopBody(s1, s2))

vercomp(x, y) == IF x = y THEN Equal ELSE Loop(x, y)

(***************************************************************************)
(* Version and VersionComponents                                           *)
(***************************************************************************)
None == [some |-> FALSE, val |-> <<>>]
Some(x) == [some |-> TRUE, val |-> x]

\* str::strip_prefix(':')
strip_prefix_colon(s) == IF s # <<>> /\ Head(s) = Colon THEN Some(Tail(s)) ELSE None

\* str::rsplit_once('-'): split at the last '-', if there is one
rsplit_once_dash(s) ==
    IF \E i \in 1..Len(s) : s[i] = Dash
    THEN LET k == CHOOSE i \in 1..Len(s) :
                      s[i] = Dash /\ \A j \in (i + 1)..Len(s) : s[j] # Dash
         IN  Some(<<Take(s, k - 1), Drop(s, k)>>)
    ELSE None

\* lines 143-149, with version what followed the epoch
SplitRelease(epoch, version, split) ==
    IF split.some
    THEN [epoch |-> epoch, version |-> split.val[1], release |-> Some(split.val[2])]
    ELSE [epoch |-> epoch, version |-> version, release |-> None]

WithEpoch(epoch, version) == SplitRelease(epoch, version, rsplit_once_dash(version))

\* lines 137-141 with `unwrap_or(evr)` replaced by `evr`: a ':' that follows
\* no digits stays in the version
FindEpochKeepColon(evr, epoch, some_nocol) ==
    IF epoch # <<>> /\ some_nocol.some
    THEN WithEpoch(epoch, some_nocol.val)
    ELSE WithEpoch(<<48>>, evr)

\* lines 134-150, with t = (version, epoch) of take_digits
FindEpoch(evr, epoch, some_nocol) ==
    IF epoch # <<>> /\ some_nocol.some
    THEN WithEpoch(epoch, some_nocol.val)
    ELSE WithEpoch(<<48>>, IF some_nocol.some THEN some_nocol.val ELSE evr)

AfterDigits(evr, t) == FindEpoch(evr, t[2], strip_prefix_colon(t[1]))

\* Version::as_components (lines 127-150)
as_components(evr) == AfterDigits(evr, take_digits(evr))

\* to_version without the `epoch == "0"` case: the epoch is always written
to_version_always_epoch(vc) ==
    LET release == IF vc.release.some THEN vc.release.val ELSE <<49>>
    IN  vc.epoch \o <<Colon>> \o vc.version \o <<Dash>> \o release

\* VersionComponents::to_version (lines 216-227)
to_version(vc) ==
    LET release == IF vc.release.some THEN vc.release.val ELSE <<49>>
    IN  IF vc.epoch = <<48>>
        THEN vc.version \o <<Dash>> \o release
        ELSE vc.epoch \o <<Colon>> \o vc.version \o <<Dash>> \o release

\* the match of lines 236-239 with a missing release compared as the empty
\* text
MatchReleaseAsEmpty(res, release1, release2) ==
    IF res = Equal
    THEN vercomp(IF release1.some THEN release1.val ELSE <<>>,
                 IF release2.some THEN release2.val ELSE <<>>)
    ELSE res

\* the match of lines 236-239
MatchRelease(res, release1, release2) ==
    IF res = Equal /\ release1.some /\ release2.some
    THEN vercomp(release1.val, release2.val)
    ELSE res

\* lines 233-234
EpochThenVersion(c1, c2) ==
    then_with(vercomp(c1.epoch, c2.epoch), vercomp(c1.version, c2.version))

\* <VersionComponents as Ord>::cmp (lines 229-241)
components_cmp(c1, c2) == MatchRelease(EpochThenVersion(c1, c2), c1.release, c2.release)

\* <Version as Ord>::cmp (lines 185-189)
version_cmp(v1, v2) == components_cmp(as_components(v1), as_components(v2))

(***************************************************************************)
(* Inputs                                                                  *)
(***************************************************************************)
MaxLen == 3
MaxOtherLen == 2

\* every text of at most n characters over the alphabet A
Texts(A, n) == UNION {[1..k -> A] : k \in 0..n}

\* '0' '1' 'a' ':' '-'
CmpAlphabet == {48, 49, 97, Colon, Dash}

\* digit runs at and beyond the edge of u128
U128Over == Take(U128MaxDigits, Len(U128MaxDigits) - 1) \o <<54>>
LongRuns == {U128MaxDigits, U128Over, <<48>> \o U128MaxDigits}

\* [epoch:]version[-release] with epoch "0" or "1", version "1" or "a",
\* release "0" or "1"
VersionSamples ==
    {e \o v \o r : e \in {<<>>, <<48, Colon>>, <<49, Colon>>},
                   v \in {<<49>>, <<97>>},
                   r \in {<<>>, <<Dash, 48>>, <<Dash, 49>>}}

\* a long run alone, as an epoch, as a version and before a release
LongVersions ==
    LongRuns
        \cup {r \o <<Colon, 49>> : r \in LongRuns}
        \cup {<<49, Colon>> \o r : r \in LongRuns}
        \cup {r \o <<Dash, 49>> : r \in LongRuns}

\* the first text of a pair, and the (shorter) second
CmpInputs == Texts(CmpAlphabet, MaxLen) \cup VersionSamples \cup LongVersions
CmpOtherInputs == Texts(CmpAlphabet, MaxOtherLen) \cup VersionSamples \cup LongVersions

(***************************************************************************)
(* Comparing two versions: the library's cmp and the segment comparator    *)
(* applied to a pair of texts.                                             *)
(***************************************************************************)
InitCmp ==
    /\ a = <<>>
    /\ b = <<>>
    /\ c = <<>>
    /\ pc = "idle"
    /\ beg1 = <<>>
    /\ beg2 = <<>>
    /\ iters = 0
    /\ out = <<>>

\* two texts arrive (Version::from)
Versions ==
    /\ pc = "idle"
    /\ a' \in CmpInputs
    /\ b' \in CmpOtherInputs
    /\ pc' = "start"
    /\ UNCHANGED <<c, beg1, beg2, iters, out>>

\* v1.cmp(&v2), and vercomp on the raw texts
Compare ==
    /\ pc = "start"
    /\ out' = [total |-> version_cmp(a, b), seg |-> vercomp(a, b)]
    /\ pc' = "done"
    /\ UNCHANGED <<a, b, c, beg1, beg2, iters>>

NextCmp == Versions \/ Compare

SpecCmp == InitCmp /\ [][NextCmp]_vars

(***************************************************************************)
(* vercomp step by step: one action per way a pass through the loop body   *)
(* can end.  beg1, beg2 are the cursors at the start of the pass; after a  *)
(* break they hold the remainders bound by `let (rem1, rem2) = loop`.      *)
(***************************************************************************)
\* '0' '1' 'a' '.'
LoopAlphabet == {48, 49, 97, 46}

\* "1\u{e9}1" (a two-byte separator), "1..1", "1.0a", and digit runs around
\* u128::MAX
LoopInputs ==
    Texts(LoopAlphabet, MaxLen)
        \cup {<<49, 233, 49>>, <<49, 46, 46, 49>>, <<49, 46, 48, 97>>}
        \cup LongRuns
        \cup {<<97, 46>> \o r : r \in LongRuns}

InitLoop ==
    /\ a = <<>>
    /\ b = <<>>
    /\ c = <<>>
    /\ pc = "idle"
    /\ beg1 = <<>>
    /\ beg2 = <<>>
    /\ iters = 0
    /\ out = <<>>

\* vercomp(a, b) is called
Call ==
    /\ pc = "idle"
    /\ a' \in LoopInputs
    /\ b' \in LoopInputs
    /\ pc' = "entry"
    /\ UNCHANGED <<c, beg1, beg2, iters, out>>

\* lines 30-32
FastPath ==
    /\ pc = "entry"
    /\ a = b
    /\ out' = Equal
    /\ pc' = "returned"
    /\ UNCHANGED <<a, b, c, beg1, beg2, iters>>

\* lines 34-35
EnterLoop ==
    /\ pc = "entry"
    /\ a # b
    /\ beg1' = a
    /\ beg2' = b
    /\ pc' = "loop"
    /\ UNCHANGED <<a, b, c, iters, out>>

\* lines 39-41 and 46-48: break with the remainders
Break ==
    /\ pc = "loop"
    /\ LoopBody(beg1, beg2).at \in {"break_begin", "break_sep"}
    /\ beg1' = LoopBody(beg1, beg2).r1
    /\ beg2' = LoopBody(beg1, beg2).r2
    /\ pc' = "tail"
    /\ UNCHANGED <<a, b, c, iters, out>>

\* lines 50-53, 67-76, 85-88, 92-95: return from inside the loop
Return ==
    /\ pc = "loop"
    /\ LoopBody(beg1, beg2).at \in {"return_sep", "return_kind", "return_cmp"}
    /\ out' = LoopBody(beg1, beg2).res
    /\ pc' = "returned"
    /\ UNCHANGED <<a, b, c, beg1, beg2, iters>>

\* lines 80-81: unwrap of a failed conversion
Unwind ==
    /\ pc = "loop"
    /\ LoopBody(beg1, beg2).at = "panic"
    /\ out' = Panic
    /\ pc' = "panicked"
    /\ UNCHANGED <<a, b, c, beg1, beg2, iters>>

\* lines 98-99: the segments tied, go round again
Continue ==
    /\ pc = "loop"
    /\ LoopBody(beg1, beg2).at = "continue"
    /\ beg1' = LoopBody(beg1, beg2).r1
    /\ beg2' = LoopBody(beg1, beg2).r2
    /\ iters' = iters + 1
    /\ UNCHANGED <<a, b, c, pc, out>>

\* lines 102-116
AfterLoop ==
    /\ pc = "tail"
    /\ out' = Remainder(beg1, beg2)
    /\ pc' = "finished"
    /\ UNCHANGED <<a, b, c, beg1, beg2, iters>>

NextLoop == Call \/ FastPath \/ EnterLoop \/ Break \/ Return \/ Unwind \/ Continue \/ AfterLoop

SpecLoop == InitLoop /\ [][NextLoop]_vars

(***************************************************************************)
(* Decomposing a version and composing it again                            *)
(***************************************************************************)
MaxDecLen == 5

\* '0' '1' 'a' ':' '-'
DecAlphabet == {48, 49, 97, Colon, Dash}

InitDec ==
    /\ a = <<>>
    /\ b = <<>>
    /\ c = <<>>
    /\ pc = "idle"
    /\ beg1 = <<>>
    /\ beg2 = <<>>
    /\ iters = 0
    /\ out = <<>>

\* Version::new
New ==
    /\ pc = "idle"
    /\ a' \in Texts(DecAlphabet, MaxDecLen)
    /\ pc' = "version"
    /\ UNCHANGED <<b, c, beg1, beg2, iters, out>>

\* Version::as_components
Decompose ==
    /\ pc = "version"
    /\ out' = as_components(a)
    /\ pc' = "components"
    /\ UNCHANGED <<a, b, c, beg1, beg2, iters>>

\* Version::from(VersionComponents)
Compose ==
    /\ pc = "components"
    /\ out' = to_version(out)
    /\ pc' = "composed"
    /\ UNCHANGED <<a, b, c, beg1, beg2, iters>>

NextDec == New \/ Decompose \/ Compose

SpecDec == InitDec /\ [][NextDec]_vars

(***************************************************************************)
(* Comparing three versions pairwise                                       *)
(***************************************************************************)
\* '1' '2' '-'
TripleAlphabet == {49, 50, Dash}

InitTriple ==
    /\ a = <<>>
    /\ b = <<>>
    /\ c = <<>>
    /\ pc = "idle"
    /\ beg1 = <<>>
    /\ beg2 = <<>>
    /\ iters = 0
    /\ out = <<>>

\* three texts arrive
Three ==
    /\ pc = "idle"
    /\ a' \in Texts(TripleAlphabet, MaxLen)
    /\ b' \in Texts(TripleAlphabet, MaxLen)
    /\ c' \in Texts(TripleAlphabet, MaxLen)
    /\ pc' = "start"
    /\ UNCHANGED <<beg1, beg2, iters, out>>

CompareAll ==
    /\ pc = "start"
    /\ out' = [ab |-> version_cmp(a, b), bc |-> version_cmp(b, c), ac |-> version_cmp(a, c)]
    /\ pc' = "done"
    /\ UNCHANGED <<a, b, c, beg1, beg2, iters>>

NextTriple == Three \/ CompareAll

SpecTriple == InitTriple /\ [][NextTriple]_vars

(***************************************************************************)
(* Properties                                                              *)
(***************************************************************************)
LessOrEqual(o) == o \in {Less, Equal}

\* Less <-> Greater, Equal <-> Equal; a call that panics has no result to
\* reverse
Reverse(o) ==
    CASE o = Less -> Greater
      [] o = Greater -> Less
      [] OTHER -> o

Min(x, y) == IF x < y THEN x ELSE y

Last(s) == s[Len(s)]

\* C1: the order of version_cmp is transitive: if cmp(a,b) and cmp(b,c) are
\* both Less or Equal then so is cmp(a,c), and if both are Equal then
\* cmp(a,c) is Equal, whether or not a, b, c carry a release.
C1_Transitive ==
    pc = "done" =>
        /\ LessOrEqual(out.ab) /\ LessOrEqual(out.bc) => LessOrEqual(out.ac)
        /\ out.ab = Equal /\ out.bc = Equal => out.ac = Equal

\* C2: swapping the arguments reverses the outcome, of vercomp and of
\* version_cmp alike (Less <-> Greater, Equal <-> Equal; a call that panics
\* one way round panics the other way round too).
C2_Antisymmetric ==
    pc = "done" =>
        /\ vercomp(b, a) = Reverse(out.seg)
        /\ version_cmp(b, a) = Reverse(out.total)

\* "1a" against "1": the kind is taken from "1a", the remainder "a" makes it
\* Less, and the other way round the remainder rule answers Greater
C2_Witness ==
    /\ pc = "done"
    /\ a = <<49, 97>>
    /\ b = <<49>>
    /\ out = [total |-> Less, seg |-> Less]
    /\ vercomp(b, a) = Greater
    /\ version_cmp(b, a) = Greater

\* C3: vercomp never fails: every call ends by returning one of Less, Equal,
\* Greater and never unwinds from a failed conversion of a digit run.
C3_NeverFails ==
    /\ pc # "panicked"
    /\ pc \in {"returned", "finished"} => out \in Ordering

\* the leading digit run of a text and what follows it
DigitRun(s) == Take(s, SpanLen("digit", s))
AfterDigitRun(s) == Drop(s, SpanLen("digit", s))

\* version[-release] of a components record, written out again
VersionAndRelease(vc) ==
    IF vc.release.some THEN vc.version \o <<Dash>> \o vc.release.val ELSE vc.version

\* C4 as stated: epoch = d and the rest without its ':' when the digit run d
\* is non-empty and followed by ':'; otherwise epoch = "0" and
\* version_and_release is the whole input, unchanged.
C4_EpochAsStated ==
    pc = "components" =>
        IF DigitRun(a) # <<>> /\ starts_with("colon", AfterDigitRun(a))
        THEN out.epoch = DigitRun(a) /\ VersionAndRelease(out) = Tail(AfterDigitRun(a))
        ELSE out.epoch = <<48>> /\ VersionAndRelease(out) = a

\* C4 amended: as stated, except that an input beginning with ':' (no digits
\* before it) loses that ':': epoch = "0" and version_and_release is the
\* input without its first character.
C4_Epoch ==
    pc = "components" =>
        IF DigitRun(a) # <<>> /\ starts_with("colon", AfterDigitRun(a))
        THEN out.epoch = DigitRun(a) /\ VersionAndRelease(out) = Tail(AfterDigitRun(a))
        ELSE IF starts_with("colon", a)
        THEN out.epoch = <<48>> /\ VersionAndRelease(out) = Tail(a)
        ELSE out.epoch = <<48>> /\ VersionAndRelease(out) = a

\* ":1-a" decomposes to epoch "0", version "1", release "a"
C4_Witness ==
    /\ pc = "components"
    /\ a = <<Colon, 49, Dash, 97>>
    /\ out = [epoch |-> <<48>>, version |-> <<49>>, release |-> Some(<<97>>)]

\* vr is v-R for a text v and a release R, neither holding a '-'
WithRelease(v, vr) ==
    \E k \in 1..Len(vr) :
        /\ vr[k] = Dash
        /\ v = Take(vr, k - 1)
        /\ \A i \in 1..Len(vr) : i # k => vr[i] # Dash

\* C5: releases count only when both sides have one: if either release is
\* None the outcome is that of the epochs and then the versions; V against
\* V-R (neither V nor R holding '-') is Equal; with both releases present and
\* epoch and version tied the outcome is vercomp of the releases.
C5_ReleaseRule ==
    pc = "done" =>
        LET c1 == as_components(a)
            c2 == as_components(b)
            ev == IF vercomp(c1.epoch, c2.epoch) # Equal
                  THEN vercomp(c1.epoch, c2.epoch)
                  ELSE vercomp(c1.version, c2.version)
        IN  /\ ~c1.release.some \/ ~c2.release.some => out.total = ev
            /\ c1.release.some /\ c2.release.some /\ ev = Equal
                   => out.total = vercomp(c1.release.val, c2.release.val)
            /\ WithRelease(a, b) \/ WithRelease(b, a) => out.total = Equal

\* "a-0" against "a": the versions tie and the release "0" is not compared
C5_Witness ==
    /\ pc = "done"
    /\ a = <<97, Dash, 48>>
    /\ b = <<97>>
    /\ as_components(a).release = Some(<<48>>)
    /\ ~as_components(b).release.some
    /\ out.total = Equal

\* "0:V-R": the text "0:" followed by a text holding a '-'
ExplicitZeroEpoch(s) ==
    /\ Len(s) >= 3
    /\ s[1] = 48
    /\ s[2] = Colon
    /\ \E i \in 3..Len(s) : s[i] = Dash

\* C6 as stated: "0:V-R" decomposed and composed again is "0:V-R".
C6_RoundTripAsStated ==
    pc = "composed" /\ ExplicitZeroEpoch(a) => out = a

\* C6 amended: "0:V-R" decomposed and composed again is "V-R": the explicit
\* epoch "0" is dropped with its ':'.
C6_RoundTrip ==
    pc = "composed" /\ ExplicitZeroEpoch(a) => out = Drop(a, 2)

\* "0:a-1" comes back as "a-1"
C6_Witness ==
    /\ pc = "composed"
    /\ a = <<48, Colon, 97, Dash, 49>>
    /\ out = <<97, Dash, 49>>

\* a text with an epoch prefix: a non-empty digit run followed by ':'
HasEpoch(s) == DigitRun(s) # <<>> /\ starts_with("colon", AfterDigitRun(s))

\* C7: the epoch dominates: when vercomp of the epochs is not Equal it is the
\* outcome of version_cmp; and a text whose explicit epoch has a value above 0
\* compares Greater than every text without an epoch prefix.
C7_EpochDominates ==
    pc = "done" =>
        LET c1 == as_components(a)
            c2 == as_components(b)
        IN  /\ vercomp(c1.epoch, c2.epoch) # Equal
                   => out.total = vercomp(c1.epoch, c2.epoch)
            /\ HasEpoch(a) /\ (\E i \in 1..Len(DigitRun(a)) : a[i] # 48) /\ ~HasEpoch(b)
                   => out.total = Greater

KindsDiffer(s1, s2) ==
    LET rem1 == Drop(s1, SpanLen("noalnum", s1))
        rem2 == Drop(s2, SpanLen("noalnum", s2))
    IN  /\ rem1 # <<>>
        /\ rem2 # <<>>
        /\ str_len(Take(s1, SpanLen("noalnum", s1))) = str_len(Take(s2, SpanLen("noalnum", s2)))
        /\ is_ascii_digit(Head(rem1)) # is_ascii_digit(Head(rem2))

\* C9: when all earlier segments tied and the next segments, after separator
\* runs of equal length, are a digit run on one side and a letter run on the
\* other, the side with the digit run is Greater, whichever argument it is.
C9_KindMismatch ==
    [][pc = "loop" /\ KindsDiffer(beg1, beg2)
           => /\ pc' = "returned"
              /\ out' = IF is_ascii_digit(Head(Drop(beg1, SpanLen("noalnum", beg1))))
                        THEN Greater ELSE Less]_vars

\* "1.a" against "1.0": the letter side is Less
C9_Witness ==
    /\ pc = "returned"
    /\ a = <<49, 46, 97>>
    /\ b = <<49, 46, 48>>
    /\ beg1 = <<46, 97>>
    /\ beg2 = <<46, 48>>
    /\ iters = 1
    /\ out = Less

\* what is left to do: every step of a call decreases it
Measure ==
    CASE pc = "entry" -> Len(a) + Len(b) + 3
      [] pc = "loop" -> Len(beg1) + Len(beg2) + 2
      [] pc = "tail" -> 1
      [] OTHER -> 0

\* C10: vercomp terminates: a pass that goes round again leaves both cursors
\* strictly shorter, so at most min(len(a), len(b)) passes go round again;
\* every pass ends in a break, a return, an unwind or a shorter pass, and
\* every step of the call decreases a measure that is never negative.
C10_Terminates ==
    /\ [][pc = "loop" /\ pc' = "loop"
              => Len(beg1') < Len(beg1) /\ Len(beg2') < Len(beg2)]_vars
    /\ [][pc # "idle" => Measure' < Measure]_vars
    /\ [](iters <= Min(Len(a), Len(b)))
    /\ [](pc = "loop" =>
              LoopBody(beg1, beg2).at \in {"break_begin", "break_sep", "return_sep",
                  "return_kind", "return_cmp", "panic", "continue"})

\* "1a" against "1a.": two passes go round, as many as "1a" is long
C10_Witness ==
    /\ pc = "finished"
    /\ iters = 2
    /\ a = <<49, 97>>
    /\ b = <<49, 97, 46>>
    /\ beg1 = <<>>

====
